---- MODULE Spec2Model ----
(***************************************************************************)
(* Model of the two bench-multimeter drivers of djacobow/sdm3055:          *)
(*   KS34460A (src/ks34460a.py, USB-VISA)                                  *)
(*   SDM3055  (src/sdm3055.py, raw TCP socket)                             *)
(* and of the raw passthrough of their command() front-ends.               *)
(*                                                                         *)
(* Representation.                                                         *)
(*  - A SCPI command is a tuple of string pieces, the pieces of the        *)
(*    Python f-string that builds it: f'{c}:RANG {rnge}' is                *)
(*    <<c, ":RANG ", rnge>>.                                               *)
(*  - A response line is a sequence of one-character strings, so that      *)
(*    strip(), the quote-stripping regular expression, split(',') and      *)
(*    float() are computed and not assumed.                                *)
(*  - Every driver method is an operator on a call context (the session    *)
(*    fields, the instrument's pending responses, the events of the call   *)
(*    and the exception raised, if any); an action applies one method to   *)
(*    the session and commits the context.                                 *)
(***************************************************************************)
EXTENDS Integers, Sequences, FiniteSets, TLC

\* ------------------------------------------------------------------ bounds

\* largest sample count asked of measN / reported by the instrument at connect
MaxCount == 3
\* most responses the instrument may hold unread before the model stops
\* issuing further queries
MaxPending == 1
\* most resources the VISA resource manager enumerates
MaxResources == 3

\* ------------------------------------------------------------- conventions

\* Python's None, for an optional string argument
None == "<None>"

Drivers == {"KS", "SDM"}

\* ----------------------------------------------------------- CONFIG tables

KS_modes ==
  [ volts_dc      |-> [cmd |-> "VOLT:DC",
                       range |-> <<"0.1", "1", "10", "100", "1000",
                                   "auto", "min", "max", "def">>,
                       nplc |-> <<"0.02", "0.06", "0.2", "1", "2", "10", "100",
                                  "min", "max", "def">>],
    volts_ac      |-> [cmd |-> "VOLT:AC",
                       range |-> <<"0.1", "1", "10", "100", "750",
                                   "auto", "min", "max", "def">>,
                       bandwidth |-> <<"3", "20", "200", "min", "max", "def">>],
    current_dc    |-> [cmd |-> "CURR:DC",
                       range |-> <<"0.0001", "0.001", "0.01", "0.1", "1", "3",
                                   "auto", "min", "max", "def">>,
                       nplc |-> <<"0.02", "0.06", "0.2", "1", "2", "10", "100",
                                  "min", "max", "def">>],
    current_ac    |-> [cmd |-> "CURR:AC",
                       range |-> <<"1", "3", "auto", "min", "max", "def">>,
                       bandwidth |-> <<"3", "20", "200", "min", "max", "def">>],
    resistance    |-> [cmd |-> "RES",
                       range |-> <<"100", "1000", "10000", "100000", "1000000",
                                   "10000000", "100000000", "1000000000",
                                   "auto", "min", "max", "def">>,
                       nplc |-> <<"0.02", "0.06", "0.2", "1", "2", "10", "100",
                                  "min", "max", "def">>],
    resistance_4w |-> [cmd |-> "FRES",
                       range |-> <<"100", "1000", "10000", "100000", "1000000",
                                   "10000000", "100000000", "1000000000",
                                   "auto", "min", "max", "def">>,
                       nplc |-> <<"0.02", "0.06", "0.2", "1", "2", "10", "100",
                                  "min", "max", "def">>],
    frequency     |-> [cmd |-> "FREQ",
                       range |-> <<"0.1", "1", "10", "100", "750",
                                   "auto", "min", "max", "def">>],
    period        |-> [cmd |-> "PER",
                       range |-> <<"0.1", "1", "10", "100", "750",
                                   "auto", "min", "max", "def">>],
    temperature   |-> [cmd |-> "TEMP",
                       probe |-> <<"RTD,85", "THER,5000", "THER,10000">>],
    diode         |-> [cmd |-> "DIOD"],
    continuity    |-> [cmd |-> "CONT"],
    capacitance   |-> [cmd |-> "CAP",
                       range |-> <<"1e-9", "10e-9", "100e-9", "1e-6", "10e-6",
                                   "100e-6", "1e-3", "10e-3",
                                   "auto", "min", "max", "def">>] ]

SDM_modes ==
  [ volts_dc      |-> [cmd |-> "VOLT:DC",
                       range |-> <<"200mv", "2v", "20v", "200v", "1000v",
                                   "auto", "min", "max", "def">>,
                       nplc |-> <<"0.3", "1", "10", "min", "max", "def">>],
    volts_ac      |-> [cmd |-> "VOLT:AC",
                       range |-> <<"200mv", "2v", "20v", "200v", "1000v",
                                   "auto", "min", "max", "def">>,
                       nplc |-> <<"0.3", "1", "10", "min", "max", "def">>],
    current_dc    |-> [cmd |-> "CURR:DC",
                       range |-> <<"200ua", "2ma", "20ma", "200ma", "2a", "10a",
                                   "auto", "min", "max", "def">>,
                       nplc |-> <<"0.3", "1", "10", "min", "max", "def">>],
    current_ac    |-> [cmd |-> "CURR:AC",
                       range |-> <<"20ma", "200ma", "2a", "10a",
                                   "auto", "min", "max", "def">>,
                       nplc |-> <<"0.3", "1", "10", "min", "max", "def">>],
    temperature   |-> [cmd |-> "TEMP",
                       range |-> <<"RTD,PT100", "RTD,PT1000", "THER,BITS90",
                                   "THER,EITS90", "THER,JITS90", "THER,NITS90",
                                   "THER,SITS90", "THER,TITS90">>],
    resistance    |-> [cmd |-> "RES",
                       range |-> <<"200", "2k", "20k", "200k", "2m", "10m", "100m",
                                   "auto", "min", "max", "def">>,
                       nplc |-> <<"0.3", "1", "10", "min", "max", "def">>],
    resistance_4w |-> [cmd |-> "FRES",
                       range |-> <<"200", "2k", "20k", "200k", "2m", "10m", "100m",
                                   "auto", "min", "max", "def">>,
                       nplc |-> <<"0.3", "1", "10", "min", "max", "def">>],
    frequency     |-> [cmd |-> "FREQ",
                       nplc |-> <<"1ms", "10ms", "1s", "min", "max", "def">>],
    diode         |-> [cmd |-> "DIOD"],
    continuity    |-> [cmd |-> "CONT"] ]

\* CONFIG['status'].items(), in the dict's declared (insertion) order
KS_status ==
  << <<"identity", "*IDN?">>, <<"mode", "CONF?">>,
     <<"trigger_count", "TRIG:COUN?">>, <<"trigger_delay", "TRIG:DEL?">>,
     <<"trigger_slope", "TRIG:SLOP?">>, <<"trigger_source", "TRIG:SOUR?">>,
     <<"sample_count", "SAMP:COUN?">> >>

SDM_status ==
  << <<"identity", "*IDN?">>, <<"mode", "CONF?">>, <<"sense", "SENSE:FUNC?">>,
     <<"trigger_count", "TRIG:COUN?">>, <<"trigger_delay", "TRIG:DEL?">>,
     <<"trigger_slope", "TRIG:SLOP?">>, <<"trigger_source", "TRIG:SOUR?">>,
     <<"sample_count", "SAMP:COUN?">> >>

Modes(drv) == IF drv = "KS" THEN KS_modes ELSE SDM_modes

Status(drv) == IF drv = "KS" THEN KS_status ELSE SDM_status

\* `x in list`
InList(x, list) == \E i \in 1..Len(list) : list[i] = x

\* the values of a list, as a set
Elems(list) == { list[i] : i \in 1..Len(list) }

\* ------------------------------------------------------- string operations

\* str.lower() on the range tokens the model feeds in: every token is already
\* lower case except the ones listed here
Lower(s) ==
  CASE s = "AUTO"        -> "auto"
    [] s = "RTD,PT100"   -> "rtd,pt100"
    [] s = "RTD,PT1000"  -> "rtd,pt1000"
    [] s = "THER,BITS90" -> "ther,bits90"
    [] s = "THER,EITS90" -> "ther,eits90"
    [] s = "THER,JITS90" -> "ther,jits90"
    [] s = "THER,NITS90" -> "ther,nits90"
    [] s = "THER,SITS90" -> "ther,sits90"
    [] s = "THER,TITS90" -> "ther,tits90"
    [] OTHER             -> s

\* str(count) inside an f-string, for the counts the model uses
Digits == <<"0", "1", "2", "3", "4", "5", "6", "7", "8", "9">>

ToStr(n) == Digits[n + 1]

\* the pieces of text that contain the character '?'
QueryPieces ==
  {"READ?", "*IDN?", "CONF?", "SENSE:FUNC?", "TRIG:COUN?", "TRIG:DEL?",
   "TRIG:SLOP?", "TRIG:SOUR?", "SAMP:COUN?", "MEAS:VOLT?"}

\* '?' in text
HasQuery(cmd) == \E i \in 1..Len(cmd) : cmd[i] \in QueryPieces

\* characters str.strip() removes
Whitespace == {" ", "\n", "\r", "\t"}

RECURSIVE LStrip(_)
LStrip(s) ==
  IF s # <<>> /\ Head(s) \in Whitespace THEN LStrip(Tail(s)) ELSE s

RECURSIVE RStrip(_)
RStrip(s) ==
  IF s # <<>> /\ s[Len(s)] \in Whitespace
    THEN RStrip(SubSeq(s, 1, Len(s) - 1))
    ELSE s

\* line.strip()
Strip(s) == RStrip(LStrip(s))

\* re.sub(r'^"(.*)"$', r'\1', line) on a stripped line: '.' does not match a
\* newline, '$' also matches before one trailing newline
QuoteStrip(s) ==
  IF /\ Len(s) >= 2
     /\ s[1] = "\""
     /\ s[Len(s)] = "\""
     /\ \A i \in 2..(Len(s) - 1) : s[i] # "\n"
    THEN SubSeq(s, 2, Len(s) - 1)
    ELSE s

\* x.split(','): the fields between the commas, in order
RECURSIVE Split(_)
Split(s) ==
  IF \A i \in 1..Len(s) : s[i] # ","
    THEN <<s>>
    ELSE LET k == CHOOSE i \in 1..Len(s) :
                     s[i] = "," /\ \A j \in 1..(i - 1) : s[j] # ","
         IN  <<SubSeq(s, 1, k - 1)>> \o Split(SubSeq(s, k + 1, Len(s)))

DigitChars == {"0", "1", "2", "3", "4", "5", "6", "7", "8", "9"}

DigitVal(ch) == CHOOSE d \in 0..9 : Digits[d + 1] = ch

\* float(x) accepts x when, surrounding whitespace removed, it is a numeral;
\* the numerals of the model are the non-empty digit strings
FloatOK(s) ==
  LET t == Strip(s)
  IN  Len(t) > 0 /\ \A i \in 1..Len(t) : t[i] \in DigitChars

RECURSIVE DecVal(_)
DecVal(t) ==
  IF t = <<>> THEN 0
  ELSE 10 * DecVal(SubSeq(t, 1, Len(t) - 1)) + DigitVal(t[Len(t)])

\* float(x) for an accepted x
FloatVal(s) == DecVal(Strip(s))

\* ------------------------------------------------------------ call context

\* The context a method runs in:
\*   drv    the driver class of the session
\*   open   the VISA resource self.inst is open (KS34460A; close() clears it)
\*   sf     the socket's reader self.sf is open (SDM3055; closed at end of stream)
\*   sc     self.sample_count
\*   inbuf  the queries the instrument has received whose response line has
\*          not been read, oldest first
\*   ev     the transport events of this call, in order
\*   exc    the exception that ended the call, NoExc when none has
\*   ret    what the last read returned to the method
\*   val    what the method returns to its caller

NoExc == [type |-> "none", msg |-> "none"]

NoRet == [none |-> TRUE, s |-> <<>>]

NoVal == [vt |-> "none", s |-> <<>>, num |-> 0, list |-> <<>>, dict |-> <<>>]

\* A write event: the command, and how many responses were unread when it
\* was written.
WriteEv(cmd, pend) ==
  [t |-> "w", cmd |-> cmd, pend |-> pend, out |-> "", line |-> <<>>, behind |-> 0]

\* A read event: how it ended, the line it got, and how many later queries'
\* responses were queued behind the one it got (0: it is the response to the
\* most recently written query).
ReadEv(out, line, buf) ==
  [t |-> "r", cmd |-> <<>>, pend |-> 0, out |-> out, line |-> line,
   behind |-> IF buf = <<>> THEN 0 ELSE Len(buf) - 1]

\* `raise type(msg)`: the first exception ends the call
Raise(c, type, msg) ==
  IF c.exc.type # "none" THEN c
  ELSE [c EXCEPT !.exc = [type |-> type, msg |-> msg]]

\* the exception class each driver defines
DriverError(drv) == IF drv = "KS" THEN "KSException" ELSE "SDMException"

\* One line written to the transport.  The instrument answers a command that
\* contains '?' with one response line, which waits until it is read; after
\* end of stream (the peer has closed the connection) nothing answers.
TransportWrite(c, cmd) ==
  [c EXCEPT !.ev = Append(@, WriteEv(cmd, Len(c.inbuf))),
            !.inbuf = IF HasQuery(cmd) /\ c.sf THEN Append(@, cmd) ELSE @]

\* What a blocking read of one line finds: the environment's outcome o, except
\* that a line can only arrive when a response is pending
ReadOutcome(c, o) ==
  IF o.out = "line" /\ c.inbuf = <<>> THEN "error" ELSE o.out

\* A read that fails loses the response it waited for: the model does not
\* follow a response that arrives after the failure
Lost(buf) == IF buf = <<>> THEN buf ELSE Tail(buf)

\* _send_command
send_command(c, cmd) ==
  IF c.exc.type # "none" THEN c
  ELSE IF c.drv = "KS" /\ ~c.open
    THEN Raise(c, "InvalidSession", "write")     \* self.inst.write on a closed resource
    ELSE TransportWrite(c, cmd)

\* SDM3055._read_response
SDM_read_response(c, o) ==
  IF c.exc.type # "none" THEN c
  ELSE IF ~c.sf
    THEN \* readline() on the closed reader raises inside the try
         Raise([c EXCEPT !.ev = Append(@, ReadEv("closed", <<>>, <<>>))],
               "SDMException", "stream")
  ELSE LET out == ReadOutcome(c, o) IN
    CASE out = "error" ->
           Raise([c EXCEPT !.ev = Append(@, ReadEv("error", <<>>, <<>>)),
                           !.inbuf = Lost(@)],
                 "SDMException", "stream")
      [] out = "eof" ->
           \* `if not line: self.sf.close(); return None`
           [c EXCEPT !.ev = Append(@, ReadEv("eof", <<>>, <<>>)),
                     !.inbuf = Lost(@), !.sf = FALSE, !.ret = NoRet]
      [] OTHER ->
           [c EXCEPT !.ev = Append(@, ReadEv("line", o.line, c.inbuf)),
                     !.inbuf = Tail(@),
                     !.ret = [none |-> FALSE, s |-> QuoteStrip(Strip(o.line))]]

\* KS34460A._send_and_read: self.inst.query(command), then response.strip()
KS_send_and_read(c, cmd, o) ==
  IF c.exc.type # "none" THEN c
  ELSE IF ~c.open THEN Raise(c, "InvalidSession", "query")
  ELSE LET w == TransportWrite(c, cmd)
           out == ReadOutcome(w, o)
       IN  IF out = "line"
             THEN [w EXCEPT !.ev = Append(@, ReadEv("line", o.line, w.inbuf)),
                            !.inbuf = Tail(@),
                            !.ret = [none |-> FALSE, s |-> Strip(o.line)]]
             ELSE Raise([w EXCEPT !.ev = Append(@, ReadEv("error", <<>>, <<>>)),
                                  !.inbuf = Lost(@)],
                        "VisaIOError", "read")

\* SDM3055._send_and_read
SDM_send_and_read(c, cmd, o) == SDM_read_response(send_command(c, cmd), o)

send_and_read(c, cmd, o) ==
  IF c.drv = "KS" THEN KS_send_and_read(c, cmd, o)
  ELSE SDM_send_and_read(c, cmd, o)

\* float(<what the read returned>)
ToFloat(c) ==
  IF c.exc.type # "none" THEN c
  ELSE IF c.ret.none THEN Raise(c, "TypeError", "float")
  ELSE IF ~FloatOK(c.ret.s) THEN Raise(c, "ValueError", "float")
  ELSE [c EXCEPT !.val = [NoVal EXCEPT !.vt = "float", !.num = FloatVal(c.ret.s)]]

\* [float(x) for x in <what the read returned>.split(',')]
ToFloatList(c) ==
  IF c.exc.type # "none" THEN c
  ELSE IF c.ret.none THEN Raise(c, "AttributeError", "split")
  ELSE LET f == Split(c.ret.s) IN
       IF \E i \in 1..Len(f) : ~FloatOK(f[i]) THEN Raise(c, "ValueError", "float")
       ELSE [c EXCEPT !.val = [NoVal EXCEPT !.vt = "list",
                                 !.list = [i \in 1..Len(f) |-> FloatVal(f[i])]]]

\* self.sample_count = n, reached only when nothing was raised before it
SetCount(c, n) == IF c.exc.type # "none" THEN c ELSE [c EXCEPT !.sc = n]

\* ------------------------------------------------------------------ methods

\* meas()
measMutantAlways(c, o) ==
  ToFloat(send_and_read(SetCount(send_command(c, <<"SAMP:COUN ", "1">>), 1),
                        <<"READ?">>, o))

meas(c, o) ==
  LET c1 == IF c.sc # 1
              THEN SetCount(send_command(c, <<"SAMP:COUN ", "1">>), 1)
              ELSE c
  IN  ToFloat(send_and_read(c1, <<"READ?">>, o))

\* measN(count)
measNMutantNoTrigDelay(c, count, o) ==
  LET c1 == SetCount(send_command(c, <<"SAMP:COUN ", ToStr(count)>>), count)
      c2 == send_command(c1, <<"TRIG:COUN 1">>)
      c4 == send_command(c2, <<"TRIG:SOUR IMM">>)
  IN  ToFloatList(send_and_read(c4, <<"READ?">>, o))

measN(c, count, o) ==
  LET c1 == SetCount(send_command(c, <<"SAMP:COUN ", ToStr(count)>>), count)
      c2 == send_command(c1, <<"TRIG:COUN 1">>)
      c3 == send_command(c2, <<"TRIG:DEL 0">>)
      c4 == send_command(c3, <<"TRIG:SOUR IMM">>)
  IN  ToFloatList(send_and_read(c4, <<"READ?">>, o))

\* reset()
reset(c) ==
  IF c.drv = "KS"
    THEN send_command(send_command(c, <<"*RST">>), <<"*CLS">>)
    ELSE send_command(c, <<"*RST">>)

\* KS34460A.configure(mode, rnge, nplc)
KS_configure(c, mode, rnge, nplc) ==
  IF mode \notin DOMAIN KS_modes THEN Raise(c, "KSException", "mode")
  ELSE
    LET mode_config == KS_modes[mode]
        r == IF rnge # None THEN Lower(rnge) ELSE None
    IN
    IF /\ rnge # None
       /\ "range" \in DOMAIN mode_config
       /\ ~InList(r, mode_config.range)
      THEN Raise(c, "KSException", "range")
    ELSE
      LET stem == mode_config.cmd
          conf == send_command(c, <<"CONF:", stem>>)
          c1 == IF r # None /\ r # "auto"
                  THEN send_command(conf, <<stem, ":RANG ", r>>)
                ELSE IF r = "auto"
                  THEN send_command(conf, <<stem, ":RANG:AUTO ON">>)
                ELSE conf
      IN
      IF nplc = None THEN c1
      ELSE IF "nplc" \notin DOMAIN mode_config
        THEN Raise(c1, "KSException", "nplc_unsupported")
      ELSE IF ~InList(nplc, mode_config.nplc)
        THEN Raise(c1, "KSException", "nplc_invalid")
      ELSE send_command(c1, <<stem, ":NPLC ", nplc>>)

\* SDM3055.configure(mode, rnge, nplc)
SDM_configure(c, mode, rnge, nplc) ==
  IF mode \notin DOMAIN SDM_modes THEN Raise(c, "SDMException", "mode")
  ELSE
    LET mode_config == SDM_modes[mode]
        r == IF rnge # None THEN Lower(rnge) ELSE None
    IN
    IF rnge # None /\ "range" \notin DOMAIN mode_config
      THEN Raise(c, "KeyError", "range")      \* CONFIG['modes'][mode]['range']
    ELSE IF rnge # None /\ ~InList(r, mode_config.range)
      THEN Raise(c, "SDMException", "range")
    ELSE
      LET stem == mode_config.cmd
          c1 == IF r # None
                  THEN send_command(c, <<"CONF:", stem, " ", r>>)
                  ELSE send_command(c, <<"CONF:", stem>>)
      IN
      IF nplc = None THEN c1
      ELSE IF "nplc" \notin DOMAIN mode_config
        THEN Raise(c1, "KeyError", "nplc")    \* CONFIG['modes'].get(mode)['nplc']
      ELSE IF ~InList(nplc, mode_config.nplc)
        THEN Raise(c1, "SDMException", "nplc_invalid")
      ELSE send_command(c1, <<"SENS:", stem, ":NPLC  ", nplc>>)

configure(c, mode, rnge, nplc) ==
  IF c.drv = "KS" THEN KS_configure(c, mode, rnge, nplc)
  ELSE SDM_configure(c, mode, rnge, nplc)

\* getStatus(): the dict comprehension over CONFIG['status'].items(); os[i]
\* is what the i-th read finds
RECURSIVE StatusLoop(_, _, _)
StatusLoop(c, i, os) ==
  IF i > Len(Status(c.drv)) \/ c.exc.type # "none" THEN c
  ELSE LET item == Status(c.drv)[i]
           c1 == send_and_read(c, <<item[2]>>, os[i])
       IN  IF c1.exc.type # "none" THEN c1
           ELSE StatusLoop(
                  [c1 EXCEPT !.val.dict =
                     Append(@, [key |-> item[1], none |-> c1.ret.none,
                                s |-> c1.ret.s])],
                  i + 1, os)

getStatus(c, os) ==
  LET c1 == StatusLoop(c, 1, os)
  IN  IF c1.exc.type # "none" THEN [c1 EXCEPT !.val = NoVal]
      ELSE [c1 EXCEPT !.val.vt = "dict"]

\* command(): `--raw text`
KS_command_raw(c, text, o) ==
  IF HasQuery(text)
    THEN LET c1 == KS_send_and_read(c, text, o)
         IN  IF c1.exc.type # "none" THEN c1
             ELSE [c1 EXCEPT !.val = [NoVal EXCEPT !.vt = "str", !.s = c1.ret.s]]
    ELSE send_command(c, text)

\* print(s._send_command(args.raw)): never a read, the value printed is None
SDM_command_raw(c, text, o) == send_command(c, text)

command_raw(c, text, o) ==
  IF c.drv = "KS" THEN KS_command_raw(c, text, o)
  ELSE SDM_command_raw(c, text, o)

\* -------------------------------------------------------------------- state

VARIABLES
  driver,        \* which driver class the session is an object of
  inst_open,     \* KS34460A: self.inst has not been closed
  sf_open,       \* SDM3055: self.sf has not been closed
  sample_count,  \* self.sample_count
  inbuf,         \* queries sent whose response has not been read, oldest first
  last,          \* the most recent call: its arguments, events and outcome
  prev,          \* a summary of the call before it
  req,           \* the configure call waiting to be made (SpecCfg only)
  conn,          \* the connect call: its inputs and what it opened (SpecConn only)
  sent_count     \* the count of the last 'SAMP:COUN <n>' written to the
                 \* instrument, or what it reported at connect when none was

vars == <<driver, inst_open, sf_open, sample_count, inbuf, last, prev, req,
          conn, sent_count>>

NoArg == [mode |-> None, rnge |-> None, nplc |-> None, count |-> 0, text |-> <<>>]

NoReq == [mode |-> None, rnge |-> None, nplc |-> None, pending |-> FALSE]

\* Python's None, for the optional resource identifier
NoId == <<>>

NoConn == [resources |-> <<>>, resource |-> NoId, pending |-> FALSE,
           enumerated |-> FALSE, target |-> NoId, opened |-> FALSE]

\* the context a call starts in
Ctx ==
  [drv |-> driver, open |-> inst_open, sf |-> sf_open, sc |-> sample_count,
   inbuf |-> inbuf, ev |-> <<>>, exc |-> NoExc, ret |-> NoRet, val |-> NoVal]

\* the commands a sequence of events wrote, in order
RECURSIVE Cmds(_)
Cmds(ev) ==
  IF ev = <<>> THEN <<>>
  ELSE IF Head(ev).t = "w" THEN <<Head(ev).cmd>> \o Cmds(Tail(ev))
  ELSE Cmds(Tail(ev))

\* the number of reads among a sequence of events
NumReads(ev) == Cardinality({ i \in 1..Len(ev) : ev[i].t = "r" })

\* the instrument's sample count after the commands cmds, written in order,
\* when it was n before: each 'SAMP:COUN <k>' sets it to k
RECURSIVE SentAfter(_, _)
SentAfter(n, cmds) ==
  IF cmds = <<>> THEN n
  ELSE LET c == Head(cmds) IN
       SentAfter(IF Len(c) = 2 /\ c[1] = "SAMP:COUN " /\ c[2] \in DigitChars
                   THEN DigitVal(c[2]) ELSE n,
                 Tail(cmds))

\* the call is over: the session takes the context's fields, `last` records it
Commit(op, arg, c) ==
  /\ Len(c.inbuf) <= MaxPending
  /\ sent_count' = SentAfter(sent_count, Cmds(c.ev))
  /\ inst_open' = c.open
  /\ sf_open' = c.sf
  /\ sample_count' = c.sc
  /\ inbuf' = c.inbuf
  /\ last' = [op |-> op, arg |-> arg, pre_sc |-> sample_count,
              pre_open |-> inst_open, pre_sf |-> sf_open,
              ev |-> c.ev, exc |-> c.exc, val |-> c.val]
  /\ prev' = [op |-> IF last.op \in {"meas", "measN"} THEN last.op ELSE "other",
              count |-> last.arg.count]
  /\ UNCHANGED driver

\* ------------------------------------------------------------------- inputs

\* response lines the instrument may send
Lines ==
  { <<"1", "\n">>,
    <<"\"", "1", "\"", "\n">>,
    <<"2", ",", "1", "\n">>,
    <<"2", ",", " ", "1", ",", "3", "\r", "\n">>,
    <<"x", "\n">> }

\* response lines to a status query
StatusLines == { <<"1", "\n">>, <<"\"", "x", " ", "1", "\"", "\n">> }

\* how a read can fail: pyvisa raises; the socket reader raises or is at end
\* of stream
FailKinds(drv) == IF drv = "KS" THEN {"error"} ELSE {"error", "eof"}

Fail(kind) == [out |-> kind, line |-> <<>>]

Outcomes(drv, lines) ==
  { [out |-> "line", line |-> l] : l \in lines } \cup { Fail(k) : k \in FailKinds(drv) }

\* the arguments the free-running specification configures with
SomeModes == {"volts_dc", "diode", "bogus"}
SomeRanges == {None, "auto"}
SomeNplcs == {None, "bogus"}

\* every argument of either capability table, and some of neither
AllModes == (DOMAIN KS_modes) \cup (DOMAIN SDM_modes) \cup {"bogus"}

AllRanges ==
  UNION { Elems(KS_modes[m].range) : m \in { x \in DOMAIN KS_modes : "range" \in DOMAIN KS_modes[x] } }
  \cup UNION { Elems(SDM_modes[m].range) : m \in { x \in DOMAIN SDM_modes : "range" \in DOMAIN SDM_modes[x] } }
  \cup {None, "bogus", "AUTO"}

AllNplcs ==
  UNION { Elems(KS_modes[m].nplc) : m \in { x \in DOMAIN KS_modes : "nplc" \in DOMAIN KS_modes[x] } }
  \cup UNION { Elems(SDM_modes[m].nplc) : m \in { x \in DOMAIN SDM_modes : "nplc" \in DOMAIN SDM_modes[x] } }
  \cup {None, "bogus"}

\* texts given to --raw
RawTexts == { <<"*IDN?">>, <<"*RST">>, <<"SAMP:COUN ", "2">> }

\* ------------------------------------------------------------------ actions

\* the state after __init__: connected, sample_count as the instrument
\* reported it to 'SAMP:COUN?', that response read
Init ==
  /\ driver \in Drivers
  /\ inst_open = TRUE
  /\ sf_open = TRUE
  /\ sample_count \in 1..MaxCount
  /\ inbuf = <<>>
  /\ last = [op |-> "init", arg |-> NoArg, pre_sc |-> sample_count,
             pre_open |-> TRUE, pre_sf |-> TRUE,
             ev |-> <<>>, exc |-> NoExc, val |-> NoVal]
  /\ prev = [op |-> "other", count |-> 0]
  /\ req = NoReq
  /\ conn = NoConn
  /\ sent_count = sample_count

Meas ==
  /\ \E o \in Outcomes(driver, Lines) : Commit("meas", NoArg, meas(Ctx, o))
  /\ UNCHANGED <<req, conn>>

MeasN ==
  /\ \E count \in 1..MaxCount, o \in Outcomes(driver, Lines) :
       Commit("measN", [NoArg EXCEPT !.count = count], measN(Ctx, count, o))
  /\ UNCHANGED <<req, conn>>

Reset ==
  /\ Commit("reset", NoArg, reset(Ctx))
  /\ UNCHANGED <<req, conn>>

Configure ==
  /\ \E mode \in SomeModes, rnge \in SomeRanges, nplc \in SomeNplcs :
       Commit("configure",
              [NoArg EXCEPT !.mode = mode, !.rnge = rnge, !.nplc = nplc],
              configure(Ctx, mode, rnge, nplc))
  /\ UNCHANGED <<req, conn>>

GetStatus ==
  /\ \E l \in StatusLines, k \in 0..Len(Status(driver)), kind \in FailKinds(driver) :
       LET os == [i \in 1..Len(Status(driver)) |->
                    IF i = k THEN Fail(kind) ELSE [out |-> "line", line |-> l]]
       IN  Commit("getStatus", NoArg, getStatus(Ctx, os))
  /\ UNCHANGED <<req, conn>>

Raw ==
  /\ \E text \in RawTexts, o \in Outcomes(driver, StatusLines) :
       Commit("raw", [NoArg EXCEPT !.text = text], command_raw(Ctx, text, o))
  /\ UNCHANGED <<req, conn>>

\* KS34460A.close(): `if self.inst: self.inst.close()`; SDM3055 has no close
Close ==
  /\ driver = "KS"
  /\ Commit("close", NoArg, [Ctx EXCEPT !.open = FALSE])
  /\ UNCHANGED <<req, conn>>

Next ==
  \/ Meas
  \/ MeasN
  \/ Reset
  \/ Configure
  \/ GetStatus
  \/ Raw
  \/ Close

Spec == Init /\ [][Next]_vars

\* configure applied once to every (mode, range, nplc) of AllModes x AllRanges
\* x AllNplcs, on a freshly connected session of either driver
InitCfg ==
  /\ driver \in Drivers
  /\ inst_open = TRUE
  /\ sf_open = TRUE
  /\ sample_count \in 1..MaxCount
  /\ inbuf = <<>>
  /\ last = [op |-> "init", arg |-> NoArg, pre_sc |-> sample_count,
             pre_open |-> TRUE, pre_sf |-> TRUE,
             ev |-> <<>>, exc |-> NoExc, val |-> NoVal]
  /\ prev = [op |-> "other", count |-> 0]
  /\ req \in [mode : AllModes, rnge : AllRanges, nplc : AllNplcs, pending : {TRUE}]
  /\ conn = NoConn
  /\ sent_count = sample_count

CfgCall ==
  /\ req.pending
  /\ Commit("configure",
            [NoArg EXCEPT !.mode = req.mode, !.rnge = req.rnge, !.nplc = req.nplc],
            configure(Ctx, req.mode, req.rnge, req.nplc))
  /\ req' = [req EXCEPT !.pending = FALSE]
  /\ UNCHANGED conn

NextCfg == CfgCall

SpecCfg == InitCfg /\ [][NextCfg]_vars

\* ------------------------------------------------------------------ connect

\* A VISA resource identifier is a tuple of pieces, like a command.  The pieces
\* that contain each text _connect searches for:
PiecesWith(pat) ==
  CASE pat = "USB"      -> {"USB0::", "USB1::"}
    [] pat = "34460"    -> {"34460A"}
    [] pat = "34461"    -> {"34461A"}
    [] pat = "KEYSIGHT" -> {"KEYSIGHT"}
    [] OTHER            -> {}

\* pat in r
Has(r, pat) == \E i \in 1..Len(r) : r[i] \in PiecesWith(pat)

\* r.upper(), piece by piece
UpperPiece(p) ==
  CASE p = "Keysight" -> "KEYSIGHT"
    [] p = "usb0::"   -> "USB0::"
    [] p = "0x1AB1"   -> "0X1AB1"
    [] p = "0x0957"   -> "0X0957"
    [] OTHER          -> p

UpperId(r) == [i \in 1..Len(r) |-> UpperPiece(r[i])]

\* 'USB' in r
IsUsb(r) == Has(r, "USB")

\* '34460' in r or '34461' in r or 'KEYSIGHT' in r.upper()
HintedMutantCaseSensitive(r) ==
  Has(r, "34460") \/ Has(r, "34461") \/ Has(r, "KEYSIGHT")

Hinted(r) == Has(r, "34460") \/ Has(r, "34461") \/ Has(UpperId(r), "KEYSIGHT")

\* self.rm.open_resource(resource): the resource opens (ok) or the library
\* raises, which _connect wraps in KSException
OpenResource(target, enumerated, ok) ==
  [enumerated |-> enumerated, target |-> target, opened |-> ok,
   exc |-> IF ok THEN NoExc ELSE [type |-> "KSException", msg |-> "open"]]

\* KS34460A._connect(resource), resources being what list_resources() returns
KS_connect(resources, resource, ok) ==
  IF resource = NoId
    THEN LET usb_resources == SelectSeq(resources, IsUsb) IN
         IF usb_resources = <<>>
           THEN \* KSException('No USB instruments found ...'), wrapped once
                \* more by the outer `except Exception`
                [enumerated |-> TRUE, target |-> NoId, opened |-> FALSE,
                 exc |-> [type |-> "KSException", msg |-> "no_usb"]]
         ELSE IF \E i \in 1..Len(usb_resources) : Hinted(usb_resources[i])
           THEN LET k == CHOOSE i \in 1..Len(usb_resources) :
                            /\ Hinted(usb_resources[i])
                            /\ \A j \in 1..(i - 1) : ~Hinted(usb_resources[j])
                IN  OpenResource(usb_resources[k], TRUE, ok)
         ELSE OpenResource(usb_resources[1], TRUE, ok)
    ELSE OpenResource(resource, FALSE, ok)

\* int(<what the read returned>), then self.sample_count = it
ToIntCount(c) ==
  IF c.exc.type # "none" THEN c
  ELSE IF ~FloatOK(c.ret.s) THEN Raise(c, "ValueError", "int")
  ELSE [c EXCEPT !.sc = FloatVal(c.ret.s)]

\* KS34460A.__init__(resource): _connect, then the sample count query
KS_init(c, k, o) ==
  IF k.exc.type # "none" THEN [c EXCEPT !.exc = k.exc]
  ELSE ToIntCount(KS_send_and_read([c EXCEPT !.open = TRUE], <<"SAMP:COUN?">>, o))

\* identifiers the resource manager may enumerate
ResourceIds ==
  { <<"USB0::", "0x1AB1", "::INSTR">>,
    <<"USB1::", "0x0957", "::INSTR">>,
    <<"USB0::", "34460A", "::INSTR">>,
    <<"USB1::", "34461A", "::INSTR">>,
    <<"USB0::", "Keysight", "::INSTR">>,
    <<"ASRL1::", "KEYSIGHT", "::INSTR">>,
    <<"usb0::", "34460A", "::INSTR">>,
    <<"TCPIP0::", "0x1AB1", "::INSTR">> }

\* what list_resources() may return
ResourceLists == UNION { [1..n -> ResourceIds] : n \in 0..MaxResources }

\* response lines to the sample count query at connect
CountLines ==
  { <<ToStr(n), "\n">> : n \in 1..MaxCount } \cup { <<"\"", "1", "\"", "\n">> }

\* a KS34460A about to be constructed, for every enumeration and every
\* resource argument
InitConn ==
  /\ driver = "KS"
  /\ inst_open = FALSE
  /\ sf_open = TRUE
  /\ sample_count = 0
  /\ inbuf = <<>>
  /\ last = [op |-> "init", arg |-> NoArg, pre_sc |-> 0,
             pre_open |-> FALSE, pre_sf |-> TRUE,
             ev |-> <<>>, exc |-> NoExc, val |-> NoVal]
  /\ prev = [op |-> "other", count |-> 0]
  /\ req = NoReq
  /\ conn \in [resources : ResourceLists, resource : ResourceIds \cup {NoId},
                pending : {TRUE}, enumerated : {FALSE}, target : {NoId},
                opened : {FALSE}]
  /\ sent_count = 0

Connect ==
  /\ conn.pending
  /\ \E ok \in BOOLEAN, o \in Outcomes("KS", CountLines) :
       LET k == KS_connect(conn.resources, conn.resource, ok)
           c == KS_init(Ctx, k, o)
       IN  /\ conn' = [conn EXCEPT !.pending = FALSE, !.enumerated = k.enumerated,
                                   !.target = k.target, !.opened = k.opened]
           /\ inst_open' = k.opened
           /\ sample_count' = c.sc
           /\ sent_count' = c.sc
           /\ inbuf' = c.inbuf
           /\ last' = [op |-> "connect", arg |-> NoArg, pre_sc |-> sample_count,
                       pre_open |-> inst_open, pre_sf |-> sf_open,
                       ev |-> c.ev, exc |-> c.exc, val |-> NoVal]
  /\ UNCHANGED <<driver, sf_open, prev, req>>

NextConn == Connect

SpecConn == InitConn /\ [][NextConn]_vars

\* ------------------------------------------------------------------- claims

Operations == {"meas", "measN", "reset", "configure", "getStatus", "raw"}

\* (mode, rnge, nplc) validates against the capability table of drv: the mode
\* is a key, a given range is in the mode's 'range' list, a given nplc is in
\* the mode's 'nplc' list; a category the mode does not declare permits nothing
ValidTriple(drv, mode, rnge, nplc) ==
  /\ mode \in DOMAIN Modes(drv)
  /\ \/ rnge = None
     \/ /\ "range" \in DOMAIN Modes(drv)[mode]
        /\ InList(Lower(rnge), Modes(drv)[mode].range)
  /\ \/ nplc = None
     \/ /\ "nplc" \in DOMAIN Modes(drv)[mode]
        /\ InList(nplc, Modes(drv)[mode].nplc)

Raised == last.exc.type # "none"

\* C1: a configure call whose (mode, range, nplc) does not validate against
\* the capability table fails and writes no command at all.
C1_InvalidTripleWritesNothing ==
  (last.op = "configure"
     /\ ~ValidTriple(driver, last.arg.mode, last.arg.rnge, last.arg.nplc))
  => (Raised /\ Cmds(last.ev) = <<>>)

\* C2: configure with a range for a mode that declares no 'range' list fails
\* with the driver's invalid-range error, and configure with an nplc (and no
\* range) for a mode that declares no 'nplc' list fails with the driver's
\* nplc-unsupported error.
C2_AbsentCategoryRejected ==
  (last.op = "configure" /\ last.arg.mode \in DOMAIN Modes(driver))
  => LET mc == Modes(driver)[last.arg.mode] IN
     /\ (last.arg.rnge # None /\ "range" \notin DOMAIN mc)
          => last.exc = [type |-> DriverError(driver), msg |-> "range"]
     /\ (last.arg.rnge = None /\ last.arg.nplc # None /\ "nplc" \notin DOMAIN mc)
          => last.exc = [type |-> DriverError(driver), msg |-> "nplc_unsupported"]

\* C3: configure(mode, r, None) with r listed in the mode's range list succeeds
\* and writes exactly CONF:<stem> and then <stem>:RANG <r> (<stem>:RANG:AUTO ON
\* for 'auto'), and reads nothing.
C3_RangeWritesTwoCommands ==
  (/\ last.op = "configure"
   /\ last.arg.mode \in DOMAIN Modes(driver)
   /\ last.arg.nplc = None
   /\ last.arg.rnge # None
   /\ "range" \in DOMAIN Modes(driver)[last.arg.mode]
   /\ InList(last.arg.rnge, Modes(driver)[last.arg.mode].range))
  => LET stem == Modes(driver)[last.arg.mode].cmd
         r == last.arg.rnge
     IN  /\ ~Raised
         /\ NumReads(last.ev) = 0
         /\ Cmds(last.ev) =
              << <<"CONF:", stem>>,
                 IF r = "auto" THEN <<stem, ":RANG:AUTO ON">>
                 ELSE <<stem, ":RANG ", r>> >>

\* C4: no command is written while the response to an earlier query is unread,
\* and every line read is the response to the most recently written query.
C4_NoPipelining ==
  \A i \in 1..Len(last.ev) :
    /\ last.ev[i].t = "w" => last.ev[i].pend = 0
    /\ (last.ev[i].t = "r" /\ last.ev[i].out = "line") => last.ev[i].behind = 0

\* C5: the raw passthrough of a text with '?' writes it, reads one line and
\* returns that line trimmed and quote-stripped; of a text without '?' it
\* writes it, reads nothing and returns nothing.
C5_RawPassthrough ==
  (last.op = "raw" /\ last.pre_open)
  => IF HasQuery(last.arg.text)
       THEN /\ Len(last.ev) = 2
            /\ last.ev[1].t = "w" /\ last.ev[1].cmd = last.arg.text
            /\ last.ev[2].t = "r"
            /\ last.ev[2].out = "line"
                 => /\ last.val.vt = "str"
                    /\ last.val.s = QuoteStrip(Strip(last.ev[2].line))
       ELSE /\ Cmds(last.ev) = <<last.arg.text>>
            /\ NumReads(last.ev) = 0
            /\ last.val.vt = "none"

\* C6: on a connected session meas() writes 'SAMP:COUN 1' and then 'READ?'
\* when the cached sample count is not 1, and only 'READ?' when it is 1; the
\* cache is 1 afterwards.  So the second of two consecutive meas() calls does
\* not write 'SAMP:COUN 1', and a meas() right after measN(k), k > 1, does.
C6_MeasSampleCount ==
  (last.op = "meas" /\ last.pre_open)
  => /\ Cmds(last.ev) = IF last.pre_sc # 1
                          THEN << <<"SAMP:COUN ", "1">>, <<"READ?">> >>
                          ELSE << <<"READ?">> >>
     /\ sample_count = 1
     /\ prev.op = "meas" => Cmds(last.ev) = << <<"READ?">> >>
     /\ (prev.op = "measN" /\ prev.count > 1)
          => Cmds(last.ev) = << <<"SAMP:COUN ", "1">>, <<"READ?">> >>

\* a meas() right after measN(k), k > 1, has written 'SAMP:COUN 1' and 'READ?'
\* and returned a number
C6_Witness ==
  /\ last.op = "meas" /\ last.pre_open
  /\ prev.op = "measN" /\ prev.count > 1
  /\ last.pre_sc # 1
  /\ Cmds(last.ev) = << <<"SAMP:COUN ", "1">>, <<"READ?">> >>
  /\ last.val.vt = "float"

\* C7: on a connected session measN(count) writes exactly 'SAMP:COUN <count>',
\* 'TRIG:COUN 1', 'TRIG:DEL 0', 'TRIG:SOUR IMM', 'READ?' in that order,
\* whatever the cached sample count was, leaves the cache at count, and reads
\* exactly once, after the 'READ?' write.
C7_MeasNCommands ==
  (last.op = "measN" /\ last.pre_open)
  => /\ Cmds(last.ev) = << <<"SAMP:COUN ", ToStr(last.arg.count)>>,
                           <<"TRIG:COUN 1">>, <<"TRIG:DEL 0">>,
                           <<"TRIG:SOUR IMM">>, <<"READ?">> >>
     /\ sample_count = last.arg.count
     /\ NumReads(last.ev) = 1
     /\ Len(last.ev) = 6
     /\ last.ev[6].t = "r"

\* measN(count) called with the cache already at count has written all five
\* commands and returned a list
C7_Witness ==
  /\ last.op = "measN" /\ last.pre_open
  /\ last.pre_sc = last.arg.count
  /\ last.arg.count > 1
  /\ Len(last.ev) = 6
  /\ last.val.vt = "list"

\* C8: the list measN(count) returns has exactly count entries, and a response
\* line with a different number of fields makes measN fail.
C8_MeasNLength ==
  (/\ last.op = "measN"
   /\ last.ev # <<>>
   /\ last.ev[Len(last.ev)].t = "r"
   /\ last.ev[Len(last.ev)].out = "line")
  => /\ ~Raised => Len(last.val.list) = last.arg.count
     /\ Len(Split(Strip(last.ev[Len(last.ev)].line))) # last.arg.count => Raised

\* C9: every operation called on a closed session fails with the driver's
\* session-closed error and writes nothing.
C9_ClosedSessionFails ==
  (last.op \in Operations /\ ~last.pre_open)
  => /\ last.exc = [type |-> DriverError(driver), msg |-> "closed"]
     /\ Cmds(last.ev) = <<>>

\* C10: getStatus() writes the status queries in table order, each followed by
\* one read; when every read gets a line it returns one entry per key, and when
\* any read fails (error, end of stream) the call fails and returns no record.
C10_GetStatusAllOrNothing ==
  (last.op = "getStatus" /\ last.pre_open)
  => LET tab == Status(driver)
         n == Len(Cmds(last.ev))
     IN  /\ n <= Len(tab)
         /\ \A i \in 1..n : Cmds(last.ev)[i] = <<tab[i][2]>>
         /\ Len(last.ev) = 2 * n
         /\ \A i \in 1..n : last.ev[2 * i - 1].t = "w" /\ last.ev[2 * i].t = "r"
         /\ (\E i \in 1..Len(last.ev) :
               last.ev[i].t = "r" /\ last.ev[i].out # "line") => Raised
         /\ ~Raised =>
              /\ last.val.vt = "dict"
              /\ Len(last.val.dict) = Len(tab)
              /\ \A i \in 1..Len(tab) :
                   last.val.dict[i].key = tab[i][1] /\ ~last.val.dict[i].none

\* C12: on a connected session the cached sample_count equals the count of
\* the most recent 'SAMP:COUN <n>' written (or what the instrument reported at
\* connect), so meas() has written 'READ?' only with that count at 1.
C12_CacheMatchesLastSent ==
  last.pre_open
  => /\ sample_count = sent_count
     /\ (last.op = "meas" /\ InList(<<"READ?">>, Cmds(last.ev))) => sent_count = 1

\* C11: connect with no explicit resource fails with the driver's
\* no-instrument error and opens nothing when no enumerated identifier
\* contains 'USB'; otherwise it opens the first identifier with 'USB' that
\* also contains '34460', '34461' or (in any case) 'KEYSIGHT', and the first
\* identifier with 'USB' when none does; what it opens always contains 'USB'.
\* An explicit resource is the one opened, without enumeration.
C11_Discovery ==
  last.op = "connect"
  => LET rs == conn.resources
         U == { i \in 1..Len(rs) : Has(rs[i], "USB") }
         H == { i \in U : \/ Has(rs[i], "34460")
                          \/ Has(rs[i], "34461")
                          \/ Has(UpperId(rs[i]), "KEYSIGHT") }
         First(S) == CHOOSE i \in S : \A j \in S : i <= j
     IN  IF conn.resource # NoId
           THEN conn.target = conn.resource /\ ~conn.enumerated
         ELSE IF U = {}
           THEN /\ last.exc = [type |-> "KSException", msg |-> "no_usb"]
                /\ conn.target = NoId
                /\ ~conn.opened /\ ~inst_open
                /\ last.ev = <<>>
         ELSE /\ conn.enumerated
              /\ conn.target = rs[First(IF H # {} THEN H ELSE U)]
              /\ Has(conn.target, "USB")

\* discovery has passed over a hinted non-USB resource and an unhinted USB
\* resource and opened the third, a USB resource hinted by 'Keysight' only
C11_Witness ==
  /\ last.op = "connect"
  /\ conn.resource = NoId
  /\ Len(conn.resources) = 3
  /\ ~Has(conn.resources[1], "USB") /\ Has(conn.resources[1], "KEYSIGHT")
  /\ Has(conn.resources[2], "USB") /\ ~Hinted(conn.resources[2])
  /\ conn.resources[3] = <<"USB0::", "Keysight", "::INSTR">>
  /\ conn.target = conn.resources[3]
  /\ conn.opened /\ inst_open
  /\ sample_count = 2

====
